---- MODULE Spec2Model ----
(***************************************************************************)
(* The Hi-Lo guessing game of src/Python/hilo.py: the HiLo range tracker   *)
(* (low, high, size), its constructor and its six methods, as a state      *)
(* machine, with two clients: an arbitrary caller (Spec) and a truthful    *)
(* driver that answers for a hidden target (DriverSpec).                   *)
(***************************************************************************)
EXTENDS Integers, FiniteSets, Sequences, TLC

VARIABLES
    pc,        \* "start": no object yet; "live": __init__ returned; "raised": __init__ raised
    minimum,   \* argument of __init__
    maximum,   \* argument of __init__
    low,       \* self.low
    high,      \* self.high
    size,      \* self.size
    op,        \* the method called last ("none" before any call)
    err,       \* the exception message of the last call ("none": it returned)
    ret,       \* the value the last call returned
    steps,     \* number of yes()/no() calls that returned (history counter)
    last,      \* per query method, what it gave since the last yes()/no() call (history)
    prev,      \* what progress() returned at its latest call, None before it (history)
    t,         \* the driver's hidden target (DriverSpec only)
    pcm,       \* position of the command-line program in main / _play (MainSpec only)
    argv,      \* sys.argv, a sequence of strings
    line,      \* the line input() returned last
    ans,       \* _play's variable ans: "True", "False" or "None"
    out,       \* the text printed last
    count      \* how many lines of each kind were printed, and answers accepted (history)

vars == <<pc, minimum, maximum, low, high, size, op, err, ret, steps, last, prev, t,
          pcm, argv, line, ans, out, count>>

\* the variables of the command-line program
mainvars == <<pcm, argv, line, ans, out, count>>

tracker == <<low, high, size>>

----------------------------------------------------------------------------
(* Bounds of the model and constants of the program *)

\* __init__ rejects maximum >= 1_000_000_000
Limit == 1000000000

\* small arguments are drawn from -1 .. MaxSmall
MaxSmall == 12

\* large arguments are drawn from Limit - NearLimit .. Limit + 1
NearLimit == 3

\* Spec explores every call sequence only for ranges of at most this many values
MaxWidth == 16

\* fractional bits of the fixed-point model of math.log
FracBits == 8

Args == (-1 .. MaxSmall) \cup ((Limit - NearLimit) .. (Limit + 1))

\* hidden targets tried by the driver: every argument value and one far from both ends
Targets == Args \cup {Limit \div 2, (Limit \div 2) + 1}

\* the command line names upper bounds 0 .. MaxArg in plain decimal
MaxArg == 5

\* typed lines start with up to MaxPad spaces
MaxPad == 1

----------------------------------------------------------------------------
(* Values and exceptions *)

\* The exceptions are all ValueError (or AssertionError); the message tells them apart.
EmptyRange == "range cannot be empty"
NegativeMin == "min cannot be negative"
MaxTooLarge == "max must be less than 1000000000"
AlreadySolved == "problem has been solved already"
NotSolved == "problem not solved yet"
AssertionError == "AssertionError"

\* math.log of a number <= 0 (a ValueError)
MathDomainError == "math domain error"

\* a float division by 0.0
ZeroDivisionError == "float division by zero"

\* Python's None
None == [kind |-> "None", a |-> 0, b |-> 0]

\* a bool
Bool(v) == [kind |-> "bool", a |-> IF v THEN 1 ELSE 0, b |-> 0]

\* an int
Int_(v) == [kind |-> "int", a |-> v, b |-> 0]

\* range(start, stop): the integers start, ..., stop - 1
range(start, stop) == [kind |-> "range", a |-> start, b |-> stop]

\* Floats are modelled in fixed point: log(n) is the base-2 logarithm of n in
\* units of 2^-FracBits, rounded down, computed bit by bit by repeated
\* squaring of the mantissa; a float value is the fraction a / b (b > 0).
\* The quotient of two logarithms does not depend on their base.

\* the integer part of log2(n), 1 <= n < 2^31
ilog2(n) == CHOOSE k \in 0 .. 30 : 2 ^ k <= n /\ (k = 30 \/ n < 2 ^ (k + 1))

\* n / 2^ilog2(n) in units of 2^-FracBits: a value in [2^FracBits, 2^(FracBits+1))
mantissa(n) ==
    IF ilog2(n) >= FracBits
    THEN n \div (2 ^ (ilog2(n) - FracBits))
    ELSE n * (2 ^ (FracBits - ilog2(n)))

RECURSIVE frac_bits(_, _)
\* the first i fractional bits of log2 of the mantissa x
frac_bits(x, i) ==
    IF i = 0 THEN 0
    ELSE LET sq == (x * x) \div (2 ^ FracBits)
         IN  IF sq >= 2 ^ (FracBits + 1)
             THEN 2 ^ (i - 1) + frac_bits(sq \div 2, i - 1)
             ELSE frac_bits(sq, i - 1)

\* math.log(n), n >= 1
log(n) == ilog2(n) * (2 ^ FracBits) + frac_bits(mantissa(n), FracBits)

\* mutant: the quotient alone, log(w) / log(s)
LogRatio(w, s) == [kind |-> "float", a |-> log(w), b |-> log(s)]

\* the float 1.0 - log(w) / log(s), log(s) > 0
OneMinusLogRatio(w, s) == [kind |-> "float", a |-> log(s) - log(w), b |-> log(s)]

\* the float literal 1.0
One == [kind |-> "float", a |-> 1, b |-> 1]

\* the methods documented as free of side effects
Queries == {"choices", "solved", "progress", "secret"}

NotCalled == [called |-> FALSE, ret |-> None, err |-> "none"]

\* history: query q has just given (r, e)
Record(q, r, e) == [last EXCEPT ![q] = [called |-> TRUE, ret |-> r, err |-> e]]

\* history: yes() or no() was called, earlier results are forgotten
Forget == [q \in Queries |-> NotCalled]

----------------------------------------------------------------------------
(* Strings: a string is the sequence of its characters *)

Whitespace == {" ", "\t"}

Digits == <<"0", "1", "2", "3", "4", "5", "6", "7", "8", "9">>

IsDigit(c) == \E i \in 1 .. 10 : Digits[i] = c

DigitValue(c) == (CHOOSE i \in 1 .. 10 : Digits[i] = c) - 1

RECURSIVE lstrip(_)
\* str.lstrip()
lstrip(str) ==
    IF str # <<>> /\ Head(str) \in Whitespace THEN lstrip(Tail(str)) ELSE str

RECURSIVE rstrip(_)
\* str.rstrip()
rstrip(str) ==
    IF str # <<>> /\ str[Len(str)] \in Whitespace
    THEN rstrip(SubSeq(str, 1, Len(str) - 1))
    ELSE str

\* mutant: only leading whitespace removed
strip_left_only(str) == lstrip(str)

\* str.strip()
strip(str) == rstrip(lstrip(str))

RECURSIVE decimal(_)
\* str(n) for n >= 0
decimal(n) ==
    IF n < 10 THEN <<Digits[n + 1]>>
    ELSE decimal(n \div 10) \o <<Digits[(n % 10) + 1]>>

\* the digits of an int literal: digits with single underscores between them
IsDigitString(str) ==
    /\ str # <<>>
    /\ IsDigit(str[1]) /\ IsDigit(str[Len(str)])
    /\ \A i \in 1 .. Len(str) : IsDigit(str[i]) \/ str[i] = "_"
    /\ \A i \in 1 .. Len(str) - 1 : ~(str[i] = "_" /\ str[i + 1] = "_")

RECURSIVE digits_value(_, _)
\* the number the digits of str denote after the value acc, underscores skipped
digits_value(str, acc) ==
    IF str = <<>> THEN acc
    ELSE IF Head(str) = "_" THEN digits_value(Tail(str), acc)
    ELSE digits_value(Tail(str), 10 * acc + DigitValue(Head(str)))

\* int(str): [ok |-> FALSE] stands for the ValueError
int(str) ==
    LET body == strip(str)
        signed == body # <<>> /\ Head(body) \in {"+", "-"}
        digs == IF signed THEN Tail(body) ELSE body
    IN  IF ~IsDigitString(digs) THEN [ok |-> FALSE, value |-> 0]
        ELSE [ok |-> TRUE,
              value |-> IF signed /\ Head(body) = "-"
                        THEN 0 - digits_value(digs, 0)
                        ELSE digits_value(digs, 0)]

_yes == {<<"y">>, <<"Y">>, <<"y", "e", "s">>, <<"Y", "e", "s">>, <<"Y", "E", "S">>}

_no == {<<"n">>, <<"N">>, <<"n", "o">>, <<"N", "o">>, <<"N", "O">>}

\* _yes_no(line): Optional[bool] as "True", "False", "None"
_yes_no(str) ==
    IF strip(str) \in _yes THEN "True"
    ELSE IF strip(str) \in _no THEN "False"
    ELSE "None"

----------------------------------------------------------------------------
(* HiLo *)

\* mutant: the midpoint rounded up
_mid_point_ceil == (low + high + 1) \div 2

_mid_point == (low + high) \div 2

solved == low = high

\* mutant: the last check off by one, maximum = 1_000_000_000 accepted
init_check_gt(mn, mx) ==
    IF mn > mx THEN EmptyRange
    ELSE IF mn < 0 THEN NegativeMin
    ELSE IF mx > Limit THEN MaxTooLarge
    ELSE "none"

\* the three range checks of __init__, in the code's order: the message raised, or "none"
init_check(mn, mx) ==
    IF mn > mx THEN EmptyRange
    ELSE IF mn < 0 THEN NegativeMin
    ELSE IF mx >= Limit THEN MaxTooLarge
    ELSE "none"

\* mutant: size computed as maximum - minimum
init_size_off ==
    /\ pc = "start"
    /\ op' = "__init__"
    /\ err' = init_check(minimum, maximum)
    /\ ret' = None
    /\ IF init_check(minimum, maximum) = "none"
       THEN /\ pc' = "live"
            /\ low' = minimum
            /\ high' = maximum
            /\ size' = maximum - minimum
       ELSE /\ pc' = "raised"
            /\ UNCHANGED tracker
    /\ UNCHANGED <<minimum, maximum, steps, last, prev, t>>

\* HiLo(minimum, maximum), on the arguments chosen initially
__init__ ==
    /\ pc = "start"
    /\ op' = "__init__"
    /\ err' = init_check(minimum, maximum)
    /\ ret' = None
    /\ IF init_check(minimum, maximum) = "none"
       THEN /\ pc' = "live"
            /\ low' = minimum
            /\ high' = maximum
            /\ size' = maximum - minimum + 1
       ELSE /\ pc' = "raised"
            /\ UNCHANGED tracker
    /\ UNCHANGED <<minimum, maximum, steps, last, prev, t>>

\* mutant: no solved() check
choices_unguarded ==
    /\ pc = "live"
    /\ op' = "choices"
    /\ IF ~(low <= _mid_point)
       THEN err' = AssertionError /\ ret' = None
       ELSE err' = "none" /\ ret' = range(low, _mid_point + 1)
    /\ last' = Record("choices", ret', err')
    /\ UNCHANGED <<pc, minimum, maximum, low, high, size, steps, prev, t>>

\* mutant: asking the question also narrows the range to it
choices_consuming ==
    /\ pc = "live"
    /\ op' = "choices"
    /\ IF solved
       THEN err' = AlreadySolved /\ ret' = None /\ UNCHANGED high
       ELSE IF ~(low <= _mid_point)
       THEN err' = AssertionError /\ ret' = None /\ UNCHANGED high
       ELSE err' = "none" /\ ret' = range(low, _mid_point + 1) /\ high' = _mid_point
    /\ last' = Record("choices", ret', err')
    /\ UNCHANGED <<pc, minimum, maximum, low, size, steps, prev, t>>

\* mutant: the range stops one short, range(low, mid)
choices_short ==
    /\ pc = "live"
    /\ op' = "choices"
    /\ IF solved
       THEN err' = AlreadySolved /\ ret' = None
       ELSE IF ~(low <= _mid_point)
       THEN err' = AssertionError /\ ret' = None
       ELSE err' = "none" /\ ret' = range(low, _mid_point)
    /\ last' = Record("choices", ret', err')
    /\ UNCHANGED <<pc, minimum, maximum, low, high, size, steps, prev, t>>

choices ==
    /\ pc = "live"
    /\ op' = "choices"
    /\ IF solved
       THEN err' = AlreadySolved /\ ret' = None
       ELSE IF ~(low <= _mid_point)
       THEN err' = AssertionError /\ ret' = None
       ELSE err' = "none" /\ ret' = range(low, _mid_point + 1)
    /\ last' = Record("choices", ret', err')
    /\ UNCHANGED <<pc, minimum, maximum, low, high, size, steps, prev, t>>

solved_ ==
    /\ pc = "live"
    /\ op' = "solved"
    /\ err' = "none"
    /\ ret' = Bool(solved)
    /\ last' = Record("solved", ret', err')
    /\ UNCHANGED <<pc, minimum, maximum, low, high, size, steps, prev, t>>

\* mutant: high set to one below the midpoint
yes_off_by_one ==
    /\ pc = "live"
    /\ op' = "yes"
    /\ last' = Forget
    /\ ret' = None
    /\ IF solved
       THEN err' = AlreadySolved /\ UNCHANGED <<high, steps>>
       ELSE /\ high' = _mid_point - 1
            /\ IF low <= high'
               THEN err' = "none" /\ steps' = steps + 1
               ELSE err' = AssertionError /\ UNCHANGED steps
    /\ UNCHANGED <<pc, minimum, maximum, low, size, prev, t>>

yes ==
    /\ pc = "live"
    /\ op' = "yes"
    /\ last' = Forget
    /\ ret' = None
    /\ IF solved
       THEN err' = AlreadySolved /\ UNCHANGED <<high, steps>>
       ELSE /\ high' = _mid_point
            /\ IF low <= high'
               THEN err' = "none" /\ steps' = steps + 1
               ELSE err' = AssertionError /\ UNCHANGED steps
    /\ UNCHANGED <<pc, minimum, maximum, low, size, prev, t>>

\* mutant: no solved() check
no_unguarded ==
    /\ pc = "live"
    /\ op' = "no"
    /\ last' = Forget
    /\ ret' = None
    /\ low' = _mid_point + 1
    /\ IF low' <= high
       THEN err' = "none" /\ steps' = steps + 1
       ELSE err' = AssertionError /\ UNCHANGED steps
    /\ UNCHANGED <<pc, minimum, maximum, high, size, prev, t>>

\* mutant: low set to the midpoint itself
no_keeps_mid ==
    /\ pc = "live"
    /\ op' = "no"
    /\ last' = Forget
    /\ ret' = None
    /\ IF solved
       THEN err' = AlreadySolved /\ UNCHANGED <<low, steps>>
       ELSE /\ low' = _mid_point
            /\ IF low' <= high
               THEN err' = "none" /\ steps' = steps + 1
               ELSE err' = AssertionError /\ UNCHANGED steps
    /\ UNCHANGED <<pc, minimum, maximum, high, size, prev, t>>

no ==
    /\ pc = "live"
    /\ op' = "no"
    /\ last' = Forget
    /\ ret' = None
    /\ IF solved
       THEN err' = AlreadySolved /\ UNCHANGED <<low, steps>>
       ELSE /\ low' = _mid_point + 1
            /\ IF low' <= high
               THEN err' = "none" /\ steps' = steps + 1
               ELSE err' = AssertionError /\ UNCHANGED steps
    /\ UNCHANGED <<pc, minimum, maximum, high, size, prev, t>>

\* mutant: no solved() short-circuit, the formula in every state
progress_no_shortcut ==
    /\ pc = "live"
    /\ op' = "progress"
    /\ IF high - low + 1 <= 0 \/ size <= 0
       THEN err' = MathDomainError /\ ret' = None
       ELSE IF log(size) = 0
       THEN err' = ZeroDivisionError /\ ret' = None
       ELSE err' = "none" /\ ret' = OneMinusLogRatio(high - low + 1, size)
    /\ last' = Record("progress", ret', err')
    /\ prev' = IF err' = "none" THEN ret' ELSE prev
    /\ UNCHANGED <<pc, minimum, maximum, low, high, size, steps, t>>

progress ==
    /\ pc = "live"
    /\ op' = "progress"
    /\ IF solved
       THEN err' = "none" /\ ret' = One
       ELSE IF high - low + 1 <= 0 \/ size <= 0
       THEN err' = MathDomainError /\ ret' = None
       ELSE IF log(size) = 0
       THEN err' = ZeroDivisionError /\ ret' = None
       ELSE err' = "none" /\ ret' = OneMinusLogRatio(high - low + 1, size)
    /\ last' = Record("progress", ret', err')
    /\ prev' = IF err' = "none" THEN ret' ELSE prev
    /\ UNCHANGED <<pc, minimum, maximum, low, high, size, steps, t>>

\* mutant: no solved() check, low returned in any state
secret_unchecked ==
    /\ pc = "live"
    /\ op' = "secret"
    /\ err' = "none"
    /\ ret' = Int_(low)
    /\ last' = Record("secret", ret', err')
    /\ UNCHANGED <<pc, minimum, maximum, low, high, size, steps, prev, t>>

secret ==
    /\ pc = "live"
    /\ op' = "secret"
    /\ IF ~solved
       THEN err' = NotSolved /\ ret' = None
       ELSE IF ~(low = high)
       THEN err' = AssertionError /\ ret' = None
       ELSE err' = "none" /\ ret' = Int_(low)
    /\ last' = Record("secret", ret', err')
    /\ UNCHANGED <<pc, minimum, maximum, low, high, size, steps, prev, t>>

----------------------------------------------------------------------------
(* Printed text: the format and the numbers put in it *)

NoOutput == [text |-> "", a |-> 0, b |-> 0]

Playing(lo, hi) == [text |-> "Playing HiLo between {a} and {b}.", a |-> lo, b |-> hi]

\* the question for the range choices returned by choices()
question(chs) ==
    IF chs.b - chs.a = 1
    THEN [text |-> "Is your number {a}? ", a |-> chs.a, b |-> 0]
    ELSE [text |-> "Is your number between {a} and {b}? ", a |-> chs.a, b |-> chs.b - 1]

Reprompt == [text |-> "  yes or no? ", a |-> 0, b |-> 0]

\* f"{p * 100.0:.0f}": the nearest integer to 100 p, a tie to the even one
percent(p) ==
    LET n == 100 * p.a
        q == n \div p.b
        r == 2 * (n % p.b)
    IN  IF r < p.b THEN q
        ELSE IF r > p.b THEN q + 1
        ELSE IF q % 2 = 0 THEN q ELSE q + 1

Done(p) == [text |-> "I'm {a}% done.", a |-> percent(p), b |-> 0]

YourNumber(v) == [text |-> "Your number is: {a}", a |-> v, b |-> 0]

Usage == [text |-> "Usage: HiLo <max>", a |-> 0, b |-> 0]

NoCount == [playing |-> 0, question |-> 0, answer |-> 0, progress |-> 0,
            secret |-> 0, usage |-> 0]

\* history: one more line of kind k
Counted(k) == [count EXCEPT ![k] = @ + 1]

----------------------------------------------------------------------------
(* An arbitrary caller: any method, in any order, on any object built from  *)
(* arguments that are rejected or that span at most MaxWidth values.        *)

InitCommon ==
    /\ pc = "start"
    /\ low = 0 /\ high = 0 /\ size = 0
    /\ op = "none" /\ err = "none" /\ ret = None
    /\ steps = 0
    /\ last = Forget
    /\ prev = None
    /\ line = <<>> /\ ans = "None"
    /\ out = NoOutput
    /\ count = NoCount

Init ==
    /\ InitCommon
    /\ pcm = "none" /\ argv = <<>>
    /\ minimum \in Args
    /\ maximum \in Args
    /\ \/ minimum > maximum \/ minimum < 0 \/ maximum >= Limit
       \/ maximum - minimum < MaxWidth
    /\ t = 0

Next ==
    \/ __init__ /\ UNCHANGED mainvars
    \/ choices /\ UNCHANGED mainvars
    \/ solved_ /\ UNCHANGED mainvars
    \/ yes /\ UNCHANGED mainvars
    \/ no /\ UNCHANGED mainvars
    \/ progress /\ UNCHANGED mainvars
    \/ secret /\ UNCHANGED mainvars

Spec == Init /\ [][Next]_vars

----------------------------------------------------------------------------
(* The truthful driver: it holds a target t of the initial range, answers   *)
(* yes when t is in the proposed half and no otherwise, and reads secret()  *)
(* once solved() is true (the loop of _play with a truthful user).          *)

InitDriver ==
    /\ InitCommon
    /\ pcm = "none" /\ argv = <<>>
    /\ minimum \in Args
    /\ maximum \in Args
    /\ t \in Targets
    /\ IF minimum <= maximum THEN minimum <= t /\ t <= maximum ELSE t = 0

DriverAnswer ==
    /\ pc = "live"
    /\ ~solved
    /\ IF t <= _mid_point THEN yes ELSE no
    /\ UNCHANGED mainvars

DriverSecret ==
    /\ pc = "live"
    /\ solved
    /\ op # "secret"
    /\ secret
    /\ UNCHANGED mainvars

DriverNext ==
    \/ __init__ /\ UNCHANGED mainvars
    \/ DriverAnswer
    \/ DriverSecret

DriverSpec == InitDriver /\ [][DriverNext]_vars /\ WF_vars(DriverNext)

----------------------------------------------------------------------------
(* The command-line program: main(argv) and the loop of _play, one action   *)
(* per call it makes. A ValueError raised under main's try block leads to   *)
(* _usage(); any other exception ends the program ("crash").                *)

\* the variables of the tracker and of its callers' histories
hilovars == <<pc, minimum, maximum, low, high, size, op, err, ret, steps, last, prev, t>>

\* where the program goes after a call of a HiLo method: on, or to the handler
After(e, on) ==
    IF e = "none" THEN on
    ELSE IF e \in {AssertionError, ZeroDivisionError} THEN "crash"
    ELSE "usage"

\* the typed answers: every case variant of y, yes, n, no, and other words
Cores ==
    {<<a>> : a \in {"y", "Y", "n", "N"}}
    \cup {<<a, b>> : a \in {"n", "N"}, b \in {"o", "O"}}
    \cup {<<a, b, c>> : a \in {"y", "Y"}, b \in {"e", "E"}, c \in {"s", "S"}}
    \cup {<<>>, <<"y", "e", "s", "s">>, <<"y", " ", "s">>, <<"x">>}

\* a typed line: an answer after 0 .. MaxPad spaces, a tab after it or not
Lines ==
    {[i \in 1 .. l |-> " "] \o c \o r :
        l \in 0 .. MaxPad, r \in {<<>>, <<"\t">>}, c \in Cores}

\* command-line arguments that int() accepts, each with the number it denotes
NumericSpellings ==
    {<<decimal(n), n>> : n \in (0 .. MaxArg) \cup {Limit, Limit + 1}}
    \cup {<<<<"-">> \o decimal(n), 0 - n>> : n \in 1 .. 2}
    \cup {<<<<"+", "3">>, 3>>, <<<<" ", "4", " ">>, 4>>, <<<<"1", "_", "0">>, 10>>,
          <<<<"0", "0", "7">>, 7>>}

\* command-line arguments that int() rejects
NonNumeric ==
    {<<>>, <<"a", "b", "c">>, <<"1", "x">>, <<"_", "1">>, <<"1", "_">>,
     <<"1", "_", "_", "0">>, <<"1", ".", "5">>, <<"-">>, <<"1", " ", "2">>}

Tokens == {p[1] : p \in NumericSpellings} \cup NonNumeric

\* sys.argv: the program's name and zero, one or two arguments
Argvs ==
    {<<<<"h", "i", "l", "o">>>>}
    \cup {<<<<"h", "i", "l", "o">>, a>> : a \in Tokens}
    \cup {<<<<"h", "i", "l", "o">>, a, b>> : a \in {<<"5">>, <<"x">>}, b \in {<<"3">>, <<>>}}

\* mutant: too few arguments rejected, too many accepted
main_argc_lt ==
    /\ pcm = "main"
    /\ IF Len(argv) < 2
       THEN pcm' = "usage" /\ UNCHANGED <<minimum, maximum>>
       ELSE IF ~int(argv[2]).ok
       THEN pcm' = "usage" /\ UNCHANGED <<minimum, maximum>>
       ELSE pcm' = "upto" /\ minimum' = 1 /\ maximum' = int(argv[2]).value
    /\ UNCHANGED <<pc, low, high, size, op, err, ret, steps, last, prev, t>>
    /\ UNCHANGED <<argv, line, ans, out, count>>

\* main up to the call HiLo.upto(int(argv[1])), whose arguments cls(1, maximum) it binds
main ==
    /\ pcm = "main"
    /\ IF Len(argv) # 2
       THEN pcm' = "usage" /\ UNCHANGED <<minimum, maximum>>
       ELSE IF ~int(argv[2]).ok
       THEN pcm' = "usage" /\ UNCHANGED <<minimum, maximum>>
       ELSE pcm' = "upto" /\ minimum' = 1 /\ maximum' = int(argv[2]).value
    /\ UNCHANGED <<pc, low, high, size, op, err, ret, steps, last, prev, t>>
    /\ UNCHANGED <<argv, line, ans, out, count>>

\* HiLo.upto(maximum): cls(1, maximum)
upto ==
    /\ pcm = "upto"
    /\ __init__
    /\ pcm' = After(err', "play")
    /\ UNCHANGED <<argv, line, ans, out, count>>

\* _usage()
_usage ==
    /\ pcm = "usage"
    /\ out' = Usage
    /\ count' = Counted("usage")
    /\ pcm' = "exit"
    /\ UNCHANGED <<argv, line, ans>>
    /\ UNCHANGED hilovars

\* _play: the first print
play_header ==
    /\ pcm = "play"
    /\ out' = Playing(low, high)
    /\ count' = Counted("playing")
    /\ pcm' = "loop"
    /\ UNCHANGED <<argv, line, ans>>
    /\ UNCHANGED hilovars

\* mutant: the loop test inverted, while hilo.solved()
play_test_inverted ==
    /\ pcm = "loop"
    /\ solved_
    /\ pcm' = IF ret'.a = 1 THEN "choices" ELSE "secret"
    /\ UNCHANGED <<argv, line, ans, out, count>>

\* _play: while not hilo.solved()
play_test ==
    /\ pcm = "loop"
    /\ solved_
    /\ pcm' = IF ret'.a = 1 THEN "secret" ELSE "choices"
    /\ UNCHANGED <<argv, line, ans, out, count>>

\* _play: choices = hilo.choices()
play_choices ==
    /\ pcm = "choices"
    /\ choices
    /\ pcm' = After(err', "ask")
    /\ UNCHANGED <<argv, line, ans, out, count>>

\* _play: ans = _yes_no(input(question))
play_ask ==
    /\ pcm = "ask"
    /\ out' = question(ret)
    /\ \E typed \in Lines : line' = typed /\ ans' = _yes_no(typed)
    /\ count' = [count EXCEPT !["question"] = @ + 1,
                              !["answer"] = @ + (IF ans' = "None" THEN 0 ELSE 1)]
    /\ pcm' = "while"
    /\ UNCHANGED argv
    /\ UNCHANGED hilovars

\* _play: while ans is None: ans = _yes_no(input("  yes or no? "))
play_reprompt ==
    /\ pcm = "while"
    /\ ans = "None"
    /\ out' = Reprompt
    /\ \E typed \in Lines : line' = typed /\ ans' = _yes_no(typed)
    /\ count' = [count EXCEPT !["answer"] = @ + (IF ans' = "None" THEN 0 ELSE 1)]
    /\ pcm' = "while"
    /\ UNCHANGED argv
    /\ UNCHANGED hilovars

\* mutant: no inner loop, an unrecognized answer counts as no
play_answer_no_reprompt ==
    /\ pcm = "while"
    /\ IF ans = "True" THEN yes ELSE no
    /\ pcm' = After(err', "progress")
    /\ UNCHANGED <<argv, line, ans, out, count>>

\* _play: hilo.yes() if ans else hilo.no()
play_answer ==
    /\ pcm = "while"
    /\ ans # "None"
    /\ IF ans = "True" THEN yes ELSE no
    /\ pcm' = After(err', "progress")
    /\ UNCHANGED <<argv, line, ans, out, count>>

\* _play: print(f"I'm {hilo.progress() * 100.0:.0f}% done.")
play_progress ==
    /\ pcm = "progress"
    /\ progress
    /\ pcm' = After(err', "loop")
    /\ IF err' = "none"
       THEN out' = Done(ret') /\ count' = Counted("progress")
       ELSE UNCHANGED <<out, count>>
    /\ UNCHANGED <<argv, line, ans>>

\* _play: print(f"Your number is: {hilo.secret()}")
play_secret ==
    /\ pcm = "secret"
    /\ secret
    /\ pcm' = After(err', "exit")
    /\ IF err' = "none"
       THEN out' = YourNumber(ret'.a) /\ count' = Counted("secret")
       ELSE UNCHANGED <<out, count>>
    /\ UNCHANGED <<argv, line, ans>>

InitMain ==
    /\ InitCommon
    /\ minimum = 0 /\ maximum = 0 /\ t = 0
    /\ pcm = "main"
    /\ argv \in Argvs

MainNext ==
    \/ main
    \/ upto
    \/ _usage
    \/ play_header
    \/ play_test
    \/ play_choices
    \/ play_ask
    \/ play_reprompt
    \/ play_answer
    \/ play_progress
    \/ play_secret

\* the program runs on while it can, and the user, asked again and again,
\* eventually types an answer that _yes_no accepts
MainSpec ==
    /\ InitMain
    /\ [][MainNext]_vars
    /\ WF_vars(MainNext)
    /\ WF_vars(play_reprompt /\ ans' # "None")

----------------------------------------------------------------------------
(* Properties *)

\* ceil(log2(n)) for 1 <= n <= 2^30: the least k with 2^k >= n
CeilLog2(n) == CHOOSE k \in 0 .. 30 : 2 ^ k >= n /\ (k = 0 \/ 2 ^ (k - 1) < n)

\* C1: for every valid initial range and every target t in it, the driver that
\* answers yes when t <= floor((low+high)/2) and no otherwise keeps
\* low <= t <= high in every state, and reaches a solved state in which
\* secret() returns exactly t.
C1_DriverFindsTarget ==
    /\ [](pc = "live" => low <= t /\ t <= high)
    /\ [](pc = "live" /\ op = "secret" =>
            err = "none" /\ ret.kind = "int" /\ ret.a = t)
    /\ (pc = "live") ~> (low = high /\ op = "secret" /\ ret.kind = "int" /\ ret.a = t)

\* C1 witness: a game of at least three answers has ended with secret() = t,
\* for a target that is neither end of the initial range.
C1_Witness ==
    /\ pc = "live" /\ op = "secret" /\ err = "none" /\ ret.a = t
    /\ steps >= 3
    /\ minimum < t /\ t < maximum

\* C2: from an initial range of N values, no sequence of calls holds more than
\* ceil(log2(N)) successful yes()/no() calls, and after that many the tracker
\* is solved.
C2_AtMostCeilLog2Steps ==
    pc = "live" =>
        /\ steps <= CeilLog2(maximum - minimum + 1)
        /\ (steps = CeilLog2(maximum - minimum + 1) => low = high)

\* C2 witness: a range of 9 values solved by exactly ceil(log2(9)) = 4 answers.
C2_Witness ==
    /\ pc = "live" /\ maximum - minimum + 1 = 9
    /\ steps = 4 /\ low = high

\* C3: low <= high in every state of a constructed tracker, after any sequence
\* of yes()/no() calls, legal or rejected, and no assertion of the code fails.
C3_LowLeHigh ==
    pc = "live" => low <= high /\ err # "AssertionError"

\* C3 witness: a no() call rejected after two successful answers.
C3_Witness ==
    /\ pc = "live" /\ op = "no" /\ err = "problem has been solved already"
    /\ steps >= 2

\* C4: construction succeeds iff minimum <= maximum, 0 <= minimum and
\* maximum < 1_000_000_000; otherwise it raises one of the three ValueErrors
\* of __init__ and no tracker exists.
C4_ConstructIffValid ==
    pc # "start" =>
        /\ pc = "live" <=>
             (minimum <= maximum /\ 0 <= minimum /\ maximum < 1000000000)
        /\ pc = "live" => err # "range cannot be empty"
                          /\ err # "min cannot be negative"
                          /\ err # "max must be less than 1000000000"
        /\ pc = "raised" =>
             /\ op = "__init__"
             /\ err \in {"range cannot be empty", "min cannot be negative",
                         "max must be less than 1000000000"}
             /\ low = 0 /\ high = 0 /\ size = 0 /\ steps = 0

\* C4 witness: maximum = 1_000_000_000 with a non-negative minimum is rejected.
C4_Witness ==
    /\ pc = "raised" /\ maximum = 1000000000
    /\ 0 <= minimum /\ minimum <= maximum

\* C5: right after a successful construction low = minimum, high = maximum,
\* size = maximum - minimum + 1, solved() is true iff minimum = maximum, and
\* with minimum = maximum secret() returns minimum with no yes()/no() call.
C5_InitialState ==
    pc = "live" /\ steps = 0 =>
        /\ low = minimum /\ high = maximum
        /\ size = maximum - minimum + 1
        /\ op = "solved" => err = "none" /\ ret.kind = "bool"
                            /\ (ret.a = 1 <=> minimum = maximum)
        /\ op = "secret" /\ minimum = maximum =>
             err = "none" /\ ret.kind = "int" /\ ret.a = minimum

\* C5 witness: HiLo(5, 5) answers secret() = 5 with no answer given.
C5_Witness ==
    /\ pc = "live" /\ steps = 0 /\ minimum = 5 /\ maximum = 5
    /\ op = "secret" /\ err = "none" /\ ret.a = 5

\* C6: in every solved state choices(), yes() and no() raise the
\* already-solved error, and no call changes low, high or size: a solved
\* state is terminal.
C6_SolvedIsTerminal ==
    [][(pc = "live" /\ low = high) =>
         /\ low' = low /\ high' = high /\ size' = size
         /\ op' \in {"choices", "yes", "no"} =>
              err' = "problem has been solved already" /\ ret'.kind = "None"
      ]_vars

\* C6 witness: choices() rejected on a tracker solved by at least one answer.
C6_Witness ==
    /\ pc = "live" /\ low = high /\ steps >= 1
    /\ op = "choices" /\ err = "problem has been solved already"

\* C7: secret() raises the not-solved error whenever low # high and returns
\* low (= high) without error whenever low = high; it never changes the state.
C7_Secret ==
    [][op' = "secret" =>
         /\ low' = low /\ high' = high /\ size' = size
         /\ IF low # high
            THEN err' = "problem not solved yet" /\ ret'.kind = "None"
            ELSE err' = "none" /\ ret'.kind = "int"
                 /\ ret'.a = low /\ ret'.a = high
      ]_vars

\* C7 witness: secret() rejected on a tracker that is narrowed but not solved.
C7_Witness ==
    /\ pc = "live" /\ op = "secret" /\ err = "problem not solved yet"
    /\ low # high /\ steps >= 1

\* C8 as claimed: in an unsolved state, with mid = floor((low+high)/2), yes()
\* sets high to mid and keeps low, no() sets low to mid + 1 and keeps high,
\* neither changes size; e.g. from (1,10): no -> (6,10), yes -> (6,7),
\* no -> (7,7).
C8_AsClaimed ==
    [][pc = "live" =>
         /\ size' = size
         /\ (low # high /\ op' = "yes") =>
              err' = "none" /\ low' = low /\ high' = (low + high) \div 2
         /\ (low # high /\ op' = "no") =>
              err' = "none" /\ low' = ((low + high) \div 2) + 1 /\ high' = high
         /\ (low = 1 /\ high = 10 /\ op' = "no") => (low' = 6 /\ high' = 10)
         /\ (low = 6 /\ high = 10 /\ op' = "yes") => (low' = 6 /\ high' = 7)
         /\ (low = 6 /\ high = 7 /\ op' = "no") => (low' = 7 /\ high' = 7)
      ]_vars

\* C8: in an unsolved state, with mid = floor((low+high)/2), yes() sets high to
\* mid and keeps low, no() sets low to mid + 1 and keeps high, both succeed,
\* and no call ever changes size; from (1,10): no -> (6,10), yes -> (6,8),
\* no -> (8,8).
C8_Transition ==
    [][pc = "live" =>
         /\ size' = size
         /\ (low # high /\ op' = "yes") =>
              err' = "none" /\ low' = low /\ high' = (low + high) \div 2
         /\ (low # high /\ op' = "no") =>
              err' = "none" /\ low' = ((low + high) \div 2) + 1 /\ high' = high
         /\ (low = 1 /\ high = 10 /\ op' = "no") => (low' = 6 /\ high' = 10)
         /\ (low = 6 /\ high = 10 /\ op' = "yes") => (low' = 6 /\ high' = 8)
         /\ (low = 6 /\ high = 8 /\ op' = "no") => (low' = 8 /\ high' = 8)
      ]_vars

\* C8 witness: the example run, HiLo(1, 10) after no, yes, no.
C8_Witness ==
    /\ pc = "live" /\ minimum = 1 /\ maximum = 10
    /\ low = 8 /\ high = 8 /\ steps = 3 /\ op = "no" /\ err = "none"

\* C9: choices(), solved(), progress() and secret(), whether they return or
\* raise, leave low, high and size unchanged, and give what the same method
\* gave at its previous call if no yes()/no() call came in between.
C9_QueriesPure ==
    [][op' \in {"choices", "solved", "progress", "secret"} =>
         /\ low' = low /\ high' = high /\ size' = size /\ steps' = steps
         /\ last[op'].called =>
              ret' = last[op'].ret /\ err' = last[op'].err
      ]_vars

\* C9 witness: all four queries have been called since the last answer, the
\* last of them, choices(), for the second time at least.
C9_Witness ==
    /\ pc = "live" /\ steps >= 1 /\ low # high
    /\ op = "choices" /\ err = "none"
    /\ \A q \in {"choices", "solved", "progress", "secret"} : last[q].called
    /\ last["secret"].err = "problem not solved yet"

\* C10: in every unsolved state choices() returns the inclusive range
\* [low, mid], mid = floor((low+high)/2), with low <= mid <= high: a non-empty
\* subset of the candidate range; its assertion never fails.
C10_Choices ==
    (pc = "live" /\ op = "choices" /\ low # high) =>
        /\ err = "none"
        /\ ret.kind = "range"
        /\ ret.a = low
        /\ ret.b - 1 = (low + high) \div 2
        /\ low <= ret.b - 1 /\ ret.b - 1 <= high
        /\ ret.a < ret.b
        /\ \A v \in ret.a .. (ret.b - 1) : low <= v /\ v <= high

\* C10 witness: choices() on a two-value range gives the single value low.
C10_Witness ==
    /\ pc = "live" /\ op = "choices" /\ err = "none"
    /\ high = low + 1 /\ ret.a = low /\ ret.b = low + 1 /\ steps >= 1

\* floor(log2(n)) for 1 <= n < 2^31: the greatest k with 2^k <= n
FloorLog2(n) == CHOOSE k \in 0 .. 30 : 2 ^ k <= n /\ (k = 30 \/ n < 2 ^ (k + 1))

\* C11: for any sequence of yes()/no() answers, each value progress() returns
\* is at least the value it returned at its previous call, and it is exactly
\* 1.0 once the tracker is solved.
C11_ProgressMonotonic ==
    [][op' = "progress" =>
         /\ err' = "none" /\ ret'.kind = "float" /\ ret'.b > 0
         /\ prev.kind = "float" => prev.a * ret'.b <= ret'.a * prev.b
         /\ low = high => ret'.a = ret'.b
      ]_vars

\* C11 witness: progress() strictly between 0.0 and 1.0 after two answers.
C11_Witness ==
    /\ pc = "live" /\ op = "progress" /\ err = "none" /\ steps >= 2
    /\ low # high /\ 0 < ret.a /\ ret.a < ret.b

\* C12: progress() never raises (no division by log(size) = 0, no log of a
\* number <= 0), lies in [0.0, 1.0], is 1.0 iff the tracker is solved, is 0.0
\* before any answer when size > 1, and is 1.0 whenever size = 1.
C12_ProgressBounds ==
    (pc = "live" /\ op = "progress") =>
        /\ err = "none" /\ ret.kind = "float" /\ ret.b > 0
        /\ 0 <= ret.a /\ ret.a <= ret.b
        /\ ret.a = ret.b <=> low = high
        /\ (steps = 0 /\ maximum > minimum) => ret.a = 0
        /\ maximum = minimum => ret.a = ret.b

\* C12 witness: progress() = 1.0 on a tracker built with a single value.
C12_Witness ==
    /\ pc = "live" /\ op = "progress" /\ err = "none"
    /\ size = 1 /\ steps = 0 /\ ret.a = ret.b

\* C16: every yes() or no() that returns leaves a range strictly smaller than
\* before, of at least one value.
C16_StrictlyShrinks ==
    [][(pc = "live" /\ op' \in {"yes", "no"} /\ err' = "none") =>
         /\ high' - low' + 1 < high - low + 1
         /\ high' - low' + 1 >= 1
      ]_vars

\* C16 witness: a second yes() has returned and the tracker is not solved yet.
C16_Witness ==
    /\ pc = "live" /\ op = "yes" /\ err = "none" /\ steps >= 2 /\ low < high

\* C18: after any sequence of calls minimum <= low <= high <= maximum, low
\* never decreases, high never increases, and secret() returns a value of the
\* initial range.
C18_NarrowsInside ==
    [][pc' = "live" =>
         /\ minimum <= low' /\ low' <= high' /\ high' <= maximum
         /\ pc = "live" => low' >= low /\ high' <= high
         /\ (op' = "secret" /\ err' = "none") =>
              minimum <= ret'.a /\ ret'.a <= maximum
      ]_vars

\* C18 witness: secret() returned an inner value of the initial range after
\* both bounds moved.
C18_Witness ==
    /\ pc = "live" /\ op = "secret" /\ err = "none"
    /\ minimum < low /\ high < maximum /\ ret.a = low

\* C19: from an unsolved range of width w, yes() leaves exactly the values
\* v <= (low+high)/2, ceil(w/2) of them, and no() exactly the values
\* v > (low+high)/2, floor(w/2) of them: the two outcomes partition the range.
C19_BalancedSplit ==
    [][(pc = "live" /\ low # high /\ op' \in {"yes", "no"}) =>
         /\ op' = "yes" =>
              /\ high' - low' + 1 = (high - low + 2) \div 2
              /\ low' .. high' = {v \in low .. high : 2 * v <= low + high}
         /\ op' = "no" =>
              /\ high' - low' + 1 = (high - low + 1) \div 2
              /\ low' .. high' = {v \in low .. high : 2 * v > low + high}
      ]_vars

\* C19 witness: HiLo(1, 9) after one no(): the 4 = floor(9/2) values 6..9.
C19_Witness ==
    /\ pc = "live" /\ minimum = 1 /\ maximum = 9
    /\ op = "no" /\ err = "none" /\ steps = 1 /\ low = 6 /\ high = 9

\* C20: a tracker of N initial values is never solved by fewer than
\* floor(log2(N)) successful yes()/no() calls: a complete game takes
\* floor(log2(N)) or ceil(log2(N)) of them.
C20_NoEarlyFinish ==
    (pc = "live" /\ low = high) =>
        /\ steps >= FloorLog2(maximum - minimum + 1)
        /\ steps \in {FloorLog2(maximum - minimum + 1),
                      CeilLog2(maximum - minimum + 1)}

\* C20 witness: 5 values solved in floor(log2(5)) = 2 answers, one fewer than
\* ceil(log2(5)).
C20_Witness ==
    /\ pc = "live" /\ maximum - minimum + 1 = 5
    /\ low = high /\ steps = 2

\* the text of str between its first and last characters that are not
\* whitespace
Trimmed(str) ==
    LET solid == {i \in 1 .. Len(str) : str[i] # " " /\ str[i] # "\t"}
    IN  IF solid = {} THEN <<>>
        ELSE SubSeq(str, CHOOSE i \in solid : \A j \in solid : i <= j,
                         CHOOSE i \in solid : \A j \in solid : i >= j)

\* str in lower case (the letters of yes and no)
LowerCase(str) ==
    [i \in 1 .. Len(str) |->
        CASE str[i] = "Y" -> "y" [] str[i] = "E" -> "e" [] str[i] = "S" -> "s"
          [] str[i] = "N" -> "n" [] str[i] = "O" -> "o" [] OTHER -> str[i]]

\* the number a numeric command-line argument denotes
Denotes(str) == (CHOOSE p \in NumericSpellings : p[1] = str)[2]

\* C13: _play never calls choices(), yes() or no() on a solved tracker nor
\* secret() on an unsolved one, for any accepted command line and any typed
\* lines: no already-solved or not-solved error is raised, and the program
\* never dies of another exception.
C13_NoIllegalCall ==
    /\ err # "problem has been solved already"
    /\ err # "problem not solved yet"
    /\ pcm # "crash"
    /\ pcm \in {"choices", "while"} => pc = "live" /\ low # high
    /\ pcm = "secret" => pc = "live" /\ low = high

\* C13 witness: a game of at least three answers has printed its secret.
C13_Witness ==
    /\ pcm = "exit" /\ op = "secret" /\ err = "none"
    /\ count.secret = 1 /\ steps >= 3

\* C14 as claimed: after trimming surrounding whitespace, every case variant
\* of y or yes is taken as yes, every case variant of n or no as no, and any
\* other text as unrecognized.
C14_AsClaimed ==
    pcm = "while" =>
        ans = IF LowerCase(Trimmed(line)) \in {<<"y">>, <<"y", "e", "s">>}
              THEN "True"
              ELSE IF LowerCase(Trimmed(line)) \in {<<"n">>, <<"n", "o">>}
              THEN "False"
              ELSE "None"

\* C14: after trimming surrounding whitespace, exactly y, Y, yes, Yes, YES are
\* taken as yes and exactly n, N, no, No, NO as no; any other text, other case
\* variants such as yEs, YeS or nO included, is unrecognized.
C14_ExactSpellings ==
    pcm = "while" =>
        ans = IF Trimmed(line) \in {<<"y">>, <<"Y">>, <<"y", "e", "s">>,
                                    <<"Y", "e", "s">>, <<"Y", "E", "S">>}
              THEN "True"
              ELSE IF Trimmed(line) \in {<<"n">>, <<"N">>, <<"n", "o">>,
                                         <<"N", "o">>, <<"N", "O">>}
              THEN "False"
              ELSE "None"

\* C14 witness: the line " yEs" followed by a tab was read and not recognized.
C14_Witness ==
    /\ pcm = "while" /\ ans = "None"
    /\ line = <<" ", "y", "E", "s", "\t">>

C17_PlayLoop ==
    /\ [][(pcm' = "while" /\ ans' = "None") =>
            /\ low' = low /\ high' = high /\ size' = size /\ steps' = steps
            /\ count'.answer = count.answer /\ count'.progress = count.progress
         ]_vars
    /\ [][(pcm = "while" /\ ans = "None") =>
            /\ out'.text = "  yes or no? " /\ pcm' = "while"
            /\ low' = low /\ high' = high /\ size' = size /\ steps' = steps
         ]_vars
    /\ [](/\ count.progress <= steps /\ steps <= count.answer
          /\ count.answer <= count.question
          /\ count.question <= count.progress + 1
          /\ pcm \in {"loop", "choices", "secret", "exit"} =>
               count.question = count.progress)
    /\ [](/\ count.secret <= 1
          /\ count.secret = 1 =>
               /\ pcm = "exit" /\ low = high
               /\ out.text = "Your number is: {a}" /\ out.a = low
               /\ count.question = steps /\ count.progress = steps)
    /\ [][count.secret = 1 => count'.question = count.question]_vars
    /\ (pcm = "play") ~> (pcm = "exit" /\ count.secret = 1)

\* C17 witness: the secret was printed once after at least three questions,
\* each answered and followed by its progress line.
C17_Witness ==
    /\ pcm = "exit" /\ count.secret = 1
    /\ count.question >= 3 /\ count.progress = count.question
    /\ out.text = "Your number is: {a}"

====
